---- MODULE Spec2Model ----
(***************************************************************************)
(* A model of jonomacd/ratecounter: the atomic Counter (counter.go) and    *)
(* the bucketed sliding-window RateCounter (ratecounter.go).               *)
(*                                                                         *)
(* Numbers.  A Counter is a uint32.  It is kept here as a pair <<hi, lo>>  *)
(* of 16-bit halves denoting hi * 2^16 + lo, so that the 2^32 wraparound   *)
(* of atomic.AddUint32 is computed and not assumed.  An int64 (the         *)
(* argument of Incr, the result of Value and Rate) is a pair <<h, l>>      *)
(* denoting h * 2^16 + l with l in 0 .. 2^16-1 and h any integer.          *)
(*                                                                         *)
(* Time.  UnixMilli() is the variable now, an integer count of             *)
(* milliseconds.  updatePartials computes in float32; the model runs only  *)
(* configurations in which the window is a whole multiple of the           *)
(* resolution, where every float32 value involved is a small integer and   *)
(* the float32 arithmetic is exact.                                        *)
(***************************************************************************)
EXTENDS Integers, Sequences, FiniteSets, TLC

(* ------------------------------ bounds --------------------------------- *)

\* number of Incr calls made on the stand-alone Counter
MaxCounterCalls == 4
\* latest value of the millisecond clock in the concurrent specification
MaxTime == 3
\* latest value of the millisecond clock in the single-threaded specifications
MaxSeqTime == 7
\* number of Incr and Rate calls made in the concurrent specification
MaxCalls == 3
\* number of Incr and Rate calls made in the specification with fairness
MaxLiveCalls == 2
\* number of Incr and Rate calls made in the specification that counts the
\* advances of the ring
MaxRingCalls == 3
\* number of Incr and Rate calls made in the single-threaded specifications
MaxSeqCalls == 4
\* number of Incr and Rate calls made in the scenario of section 8
MaxScenarioCalls == 4
\* largest resolution handed to WithResolution
MaxResolution == 2

(* --------------------------- program constants ------------------------- *)

\* half of the 32-bit word: 2^16
Half == 65536
\* make([]Counter, 20) in NewRateCounter
DefaultResolution == 20

(* ------------------------------ int64 ---------------------------------- *)

\* the int64 with the value of the (small) integer n
I64(n) == <<n \div Half, n % Half>>

\* -1 * x on int64
Neg64(x) == IF x[2] = 0 THEN <<0 - x[1], 0>> ELSE <<(0 - x[1]) - 1, Half - x[2]>>

(* --------------------------- counter.go ------------------------------- *)

\* uint32(val): the low 32 bits of an int64
ToUint32(x) == <<x[1] % Half, x[2]>>

\* atomic.AddUint32 with a dropped carry between the halves
AddUint32_NoCarry(c, u) == <<(c[1] + u[1]) % Half, (c[2] + u[2]) % Half>>

\* atomic.AddUint32: addition modulo 2^32
AddUint32(c, u) ==
    <<(c[1] + u[1] + ((c[2] + u[2]) \div Half)) % Half, (c[2] + u[2]) % Half>>

\* a zeroed Counter
NewCounter == <<0, 0>>

\* Counter.Incr(val): the new value of the counter
CounterIncr(c, val) == AddUint32(c, ToUint32(val))

\* Counter.Reset(): the new value of the counter
CounterReset(c) == <<0, 0>>

\* Counter.Value(): int64 of the uint32 (zero extension)
CounterValue(c) == <<c[1], c[2]>>

(* ------------------------------ state ---------------------------------- *)

VARIABLES
    \* the stand-alone Counter of TestCounter and its callers
    c,          \* the Counter
    cpc,        \* per caller: "idle" or "incr" (inside Counter.Incr)
    carg,       \* per caller: the int64 argument of the call in progress
    cread,      \* the last result of c.Value()
    csum,       \* <<sum of the h parts, sum of the l parts>> of all deltas of calls made
    ccalls,     \* number of Incr calls made
    \* the RateCounter
    counter,    \* r.counter: the running total
    partials,   \* r.partials: the ring; partials[i + 1] is the Go element i
    resetTime,  \* r.resetTime
    current,    \* r.current (Go index, from 0)
    resetting,  \* r.resetting
    interval,   \* r.interval, in milliseconds
    mutex,      \* the embedded sync.Mutex: 0 when free, else the holder
    \* the environment
    now,        \* UnixMilli()
    panicked,   \* a panic has ended the program
    procs,      \* the goroutines calling Incr and Rate
    th,         \* per goroutine: its position and the locals of its call
    \* history (read by the properties only)
    record,     \* which histories this specification keeps: "ev", "calls", "log",
                \* "advances"
    ev,         \* the followed event: one Incr call and where its delta is now
    lastIncr,   \* the time of the latest Incr call, -1 before the first
    nIncr,      \* number of Incr calls made
    nRate,      \* number of Rate calls made
    log,        \* the calls made, as <<op, delta, time>>
    advances    \* number of times the ring has been advanced by one bucket

cvars == <<c, cpc, carg, cread, csum, ccalls>>

rvars == <<counter, partials, resetTime, current, resetting, interval, mutex,
           now, panicked, procs, th, record, ev, lastIncr, nIncr, nRate, log, advances>>

vars == <<c, cpc, carg, cread, csum, ccalls,
          counter, partials, resetTime, current, resetting, interval, mutex,
          now, panicked, procs, th, record, ev, lastIncr, nIncr, nRate, log, advances>>

(* --------------------------- ratecounter.go ---------------------------- *)

\* the deltas handed to RateCounter.Incr
Deltas == {1}

\* len(r.partials)
Resolution == Len(partials)

\* partialInterval := float32(interval) / float32(resolution); exact when the
\* window is a whole multiple of the resolution
PartialInterval == interval \div Resolution

\* the test of line 49 taken at the boundary too
PartialElapsed_AtBoundary(timeDiff) == timeDiff >= PartialInterval

\* updatePartials, line 49: we are beyond at least one partial interval
PartialElapsed(timeDiff) == timeDiff > PartialInterval

\* the float32 computation of updatePartials is exact in this configuration
ExactConfig == interval % Resolution = 0

\* a goroutine between calls, before its first call
IdleFrame ==
    [pc |-> "idle", op |-> "none", val |-> I64(0),
     resetTime |-> 0, now |-> 0, timeDiff |-> 0,
     current |-> 0, ii |-> 0, next |-> 0, dropped |-> I64(0),
     ret |-> I64(0), path |-> "none",
     \* history of the call, read by the properties only
     start |-> 0, end |-> 0, tracked |-> FALSE, loadedEv |-> FALSE,
     afterEv |-> FALSE, inclEv |-> 0, idleSince |-> 0, pre |-> <<>>]

\* no event is followed
NoEvent == [t |-> -1, inTotal |-> 0, bucket |-> -1, done |-> FALSE]

\* NewRateCounter(intrvl), called at time t0 with intrvl = w milliseconds
NewRateCounter(w, t0) ==
    /\ counter = NewCounter
    /\ partials = [i \in 1 .. DefaultResolution |-> NewCounter]
    /\ resetTime = t0
    /\ current = 0
    /\ resetting = FALSE
    /\ interval = w
    /\ mutex = 0

\* the state of the variables a specification does not use
CounterUnused ==
    /\ c = NewCounter
    /\ cpc = <<>>
    /\ carg = <<>>
    /\ cread = I64(0)
    /\ csum = <<0, 0>>
    /\ ccalls = 0

RateCounterUnused ==
    /\ NewRateCounter(0, 0)
    /\ now = 0
    /\ panicked = FALSE
    /\ procs = {}
    /\ th = <<>>
    /\ record = {}
    /\ ev = NoEvent
    /\ lastIncr = -1
    /\ nIncr = 0
    /\ nRate = 0
    /\ log = <<>>
    /\ advances = 0

\* a RateCounter constructed at time 0 with one of the windows ws (in ms) for
\* the goroutines ps, keeping the histories hs
InitRate(ps, hs, ws) ==
    /\ CounterUnused
    /\ \E w \in ws : NewRateCounter(w, 0)
    /\ now = 0
    /\ panicked = FALSE
    /\ procs = ps
    /\ th = [t \in ps |-> IdleFrame]
    /\ record = hs
    /\ ev = NoEvent
    /\ lastIncr = -1
    /\ nIncr = 0
    /\ nRate = 0
    /\ log = <<>>
    /\ advances = 0

AllIdle == \A t \in procs : th[t].pc = "idle"

\* where a call continues when updatePartials returns
AfterUpdate(f) == IF f.op = "Incr" THEN "incrLoadCurrent" ELSE "rateValue"

\* the state a call finds, kept for the properties that compare before and
\* after
PreState(t) ==
    IF "calls" \in record
    THEN [op |-> th[t].op, ret |-> th[t].ret, counter |-> counter,
          partials |-> partials, current |-> current, resetTime |-> resetTime]
    ELSE <<>>

\* the time, kept only in the specifications that keep the history of calls
Stamp(time) == IF "calls" \in record THEN time ELSE 0

Logged(o, d) == IF "log" \in record THEN Append(log, <<o, d, now>>) ELSE log

\* WithResolution(resolution) that replaces the ring before it checks
WithResolution_CheckLast(n) ==
    /\ ~panicked
    /\ AllIdle
    /\ partials' = [i \in 1 .. (IF n < 1 THEN 0 ELSE n) |-> NewCounter]
    /\ current' = 0
    /\ panicked' = (n < 1)
    /\ UNCHANGED <<counter, resetTime, resetting, interval, mutex, now, procs,
                   th, record, ev, lastIncr, nIncr, nRate, log, advances>>
    /\ UNCHANGED cvars

\* WithResolution growing or cutting the ring it finds, counts kept
WithResolution_KeepsCounts(n) ==
    /\ ~panicked
    /\ AllIdle
    /\ IF n < 1
       THEN /\ panicked' = TRUE
            /\ UNCHANGED <<partials, current>>
       ELSE /\ partials' = [i \in 1 .. n |->
                               IF i <= Len(partials) THEN partials[i] ELSE NewCounter]
            /\ current' = 0
            /\ UNCHANGED panicked
    /\ UNCHANGED <<counter, resetTime, resetting, interval, mutex, now, procs,
                   th, record, ev, lastIncr, nIncr, nRate, log, advances>>
    /\ UNCHANGED cvars

\* WithResolution(resolution), called while no Incr or Rate is in flight
WithResolution(n) ==
    /\ ~panicked
    /\ AllIdle
    /\ IF n < 1
       THEN /\ panicked' = TRUE
            /\ UNCHANGED <<partials, current>>
       ELSE /\ partials' = [i \in 1 .. n |-> NewCounter]
            /\ current' = 0
            /\ UNCHANGED panicked
    /\ UNCHANGED <<counter, resetTime, resetting, interval, mutex, now, procs,
                   th, record, ev, lastIncr, nIncr, nRate, log, advances>>
    /\ UNCHANGED cvars

\* Incr(val), line 110: the call starts and adds val to the total.  With
\* track the call is the followed event.
CallIncr(t, d, track) ==
    /\ ~panicked
    /\ ExactConfig
    /\ th[t].pc = "idle"
    /\ track => ("ev" \in record /\ ev.t = -1)
    /\ counter' = CounterIncr(counter, I64(d))
    /\ th' = [th EXCEPT ![t] =
                 [IdleFrame EXCEPT !.pc = "loadResetTime", !.op = "Incr",
                                   !.val = I64(d), !.tracked = track,
                                   !.start = Stamp(now), !.afterEv = ev.done,
                                   !.idleSince = lastIncr,
                                   !.pre = PreState(t)]]
    /\ ev' = IF track THEN [t |-> now, inTotal |-> 1, bucket |-> -1, done |-> FALSE]
             ELSE ev
    /\ lastIncr' = IF "calls" \in record THEN now ELSE lastIncr
    /\ nIncr' = nIncr + 1
    /\ log' = Logged("Incr", d)
    /\ UNCHANGED <<partials, resetTime, current, resetting, interval, mutex,
                   now, panicked, procs, record, nRate, advances>>
    /\ UNCHANGED cvars

\* Rate(): the call starts
CallRate(t) ==
    /\ ~panicked
    /\ ExactConfig
    /\ th[t].pc = "idle"
    /\ th' = [th EXCEPT ![t] =
                 [IdleFrame EXCEPT !.pc = "loadResetTime", !.op = "Rate",
                                   !.start = Stamp(now), !.afterEv = ev.done,
                                   !.idleSince = lastIncr,
                                   !.pre = PreState(t)]]
    /\ nRate' = nRate + 1
    /\ log' = Logged("Rate", 0)
    /\ UNCHANGED <<counter, partials, resetTime, current, resetting, interval,
                   mutex, now, panicked, procs, record, ev, lastIncr, nIncr,
                   advances>>
    /\ UNCHANGED cvars

\* what a step of updatePartials leaves alone besides the fields it names
RateFrame == <<interval, now, panicked, procs, record, lastIncr, nIncr, nRate, log, advances>>

\* updatePartials returns by the path p: its locals are gone
UpdateReturns(f, p) ==
    [f EXCEPT !.resetTime = 0, !.now = 0, !.timeDiff = 0, !.current = 0,
              !.ii = 0, !.next = 0, !.path = p, !.pc = AfterUpdate(f)]

\* updatePartials, line 38: resetTime := atomic.LoadUint64(&r.resetTime)
LoadResetTime(t) ==
    /\ th[t].pc = "loadResetTime"
    /\ th' = [th EXCEPT ![t].resetTime = resetTime, ![t].pc = "readClock"]
    /\ UNCHANGED <<counter, partials, resetTime, current, resetting, mutex, ev>>
    /\ UNCHANGED RateFrame
    /\ UNCHANGED cvars

\* updatePartials, lines 39-49 and 66-69: now := UnixMilli(), timeDiff, and
\* the test timeDiff > partialInterval; returns when no partial interval has
\* passed
ReadClock(t) ==
    /\ th[t].pc = "readClock"
    /\ LET td == now - th[t].resetTime
       IN  th' = [th EXCEPT ![t] =
                     IF PartialElapsed(td)
                     THEN [th[t] EXCEPT !.now = now, !.timeDiff = td, !.pc = "lock"]
                     ELSE UpdateReturns(th[t], "fresh")]
    /\ UNCHANGED <<counter, partials, resetTime, current, resetting, mutex, ev>>
    /\ UNCHANGED RateFrame
    /\ UNCHANGED cvars

\* updatePartials, line 51: r.Lock()
Lock(t) ==
    /\ th[t].pc = "lock"
    /\ mutex = 0
    /\ mutex' = t
    /\ th' = [th EXCEPT ![t].pc = "gate"]
    /\ UNCHANGED <<counter, partials, resetTime, current, resetting, ev>>
    /\ UNCHANGED RateFrame
    /\ UNCHANGED cvars

\* the gate without the test of r.resetting: every caller enters
Gate_NoTest(t) ==
    /\ th[t].pc = "gate"
    /\ mutex = t
    /\ resetting' = TRUE
    /\ th' = [th EXCEPT ![t].path = "rotating", ![t].pc = "loadCurrent"]
    /\ mutex' = 0
    /\ UNCHANGED <<counter, partials, resetTime, current, ev>>
    /\ UNCHANGED RateFrame
    /\ UNCHANGED cvars

\* the gate whose losing caller joins the rotation it found in progress
Gate_LoserEnters(t) ==
    /\ th[t].pc = "gate"
    /\ mutex = t
    /\ resetting' = TRUE
    /\ th' = [th EXCEPT ![t].path = IF resetting THEN "skipped" ELSE "rotating",
                        ![t].pc = "loadCurrent"]
    /\ mutex' = 0
    /\ UNCHANGED <<counter, partials, resetTime, current, ev>>
    /\ UNCHANGED RateFrame
    /\ UNCHANGED cvars

\* the gate whose losing caller returns without r.Unlock()
Gate_KeepsLock(t) ==
    /\ th[t].pc = "gate"
    /\ mutex = t
    /\ IF ~resetting
       THEN /\ resetting' = TRUE
            /\ th' = [th EXCEPT ![t].path = "rotating", ![t].pc = "loadCurrent"]
            /\ mutex' = 0
       ELSE /\ UNCHANGED resetting
            /\ th' = [th EXCEPT ![t] = UpdateReturns(th[t], "skipped")]
            /\ UNCHANGED mutex
    /\ UNCHANGED <<counter, partials, resetTime, current, ev>>
    /\ UNCHANGED RateFrame
    /\ UNCHANGED cvars

\* the gate whose losing caller clears the flag it found set
Gate_LoserClears(t) ==
    /\ th[t].pc = "gate"
    /\ mutex = t
    /\ IF ~resetting
       THEN /\ resetting' = TRUE
            /\ th' = [th EXCEPT ![t].path = "rotating", ![t].pc = "loadCurrent"]
       ELSE /\ resetting' = FALSE
            /\ th' = [th EXCEPT ![t] = UpdateReturns(th[t], "skipped")]
    /\ mutex' = 0
    /\ UNCHANGED <<counter, partials, resetTime, current, ev>>
    /\ UNCHANGED RateFrame
    /\ UNCHANGED cvars

\* updatePartials, lines 52-64: under the mutex, the caller that finds
\* r.resetting false sets it and goes on to rotate; the one that finds it set
\* returns
Gate(t) ==
    /\ th[t].pc = "gate"
    /\ mutex = t
    /\ IF ~resetting
       THEN /\ resetting' = TRUE
            /\ th' = [th EXCEPT ![t].path = "rotating", ![t].pc = "loadCurrent"]
       ELSE /\ UNCHANGED resetting
            /\ th' = [th EXCEPT ![t] = UpdateReturns(th[t], "skipped")]
    /\ mutex' = 0
    /\ UNCHANGED <<counter, partials, resetTime, current, ev>>
    /\ UNCHANGED RateFrame
    /\ UNCHANGED cvars

\* updatePartials, line 71: current := atomic.LoadInt32(&r.current)
LoadCurrent(t) ==
    /\ th[t].pc = "loadCurrent"
    /\ th' = [th EXCEPT ![t].current = current, ![t].ii = 0, ![t].pc = "loop"]
    /\ UNCHANGED <<counter, partials, resetTime, current, resetting, mutex, ev>>
    /\ UNCHANGED RateFrame
    /\ UNCHANGED cvars

\* the loop of line 75 stopping one iteration short of the resolution
LoopCondition_CapShort(f) == f.timeDiff > PartialInterval /\ f.ii < Resolution - 1

\* the loop of line 75 going on at timeDiff = partialInterval
LoopCondition_AtBoundary(f) == f.timeDiff >= PartialInterval /\ f.ii < Resolution

\* the loop condition of line 75
LoopCondition(f) == f.timeDiff > PartialInterval /\ f.ii < Resolution

\* updatePartials, lines 75-82: one more iteration; timeDiff shrinks, next is
\* chosen and r.partials[next].Value() is read
LoadPartial(t) ==
    /\ th[t].pc = "loop"
    /\ LoopCondition(th[t])
    /\ LET next == (th[t].current + 1) % Resolution
       IN  th' = [th EXCEPT ![t].timeDiff = th[t].timeDiff - PartialInterval,
                            ![t].next = next,
                            ![t].dropped = CounterValue(partials[next + 1]),
                            ![t].loadedEv = (ev.bucket = next),
                            ![t].pc = "subtract"]
    /\ UNCHANGED <<counter, partials, resetTime, current, resetting, mutex, ev>>
    /\ UNCHANGED RateFrame
    /\ UNCHANGED cvars

\* updatePartials, line 82: r.counter.Incr(-1 * value read)
Subtract(t) ==
    /\ th[t].pc = "subtract"
    /\ counter' = CounterIncr(counter, Neg64(th[t].dropped))
    /\ ev' = IF th[t].loadedEv THEN [ev EXCEPT !.inTotal = ev.inTotal - 1] ELSE ev
    /\ th' = [th EXCEPT ![t].pc = "reset"]
    /\ UNCHANGED <<partials, resetTime, current, resetting, mutex>>
    /\ UNCHANGED RateFrame
    /\ UNCHANGED cvars

\* updatePartials, lines 85-88 and the ii++ of line 75
ResetPartial(t) ==
    /\ th[t].pc = "reset"
    /\ partials' = [partials EXCEPT ![th[t].next + 1] = CounterReset(@)]
    /\ ev' = IF ev.bucket = th[t].next THEN [ev EXCEPT !.bucket = -1] ELSE ev
    /\ th' = [th EXCEPT ![t].current = th[t].next, ![t].ii = th[t].ii + 1,
                        ![t].dropped = I64(0), ![t].loadedEv = FALSE,
                        ![t].pc = "loop"]
    /\ advances' = IF "advances" \in record THEN advances + 1 ELSE advances
    /\ UNCHANGED <<counter, resetTime, current, resetting, mutex>>
    /\ UNCHANGED <<interval, now, panicked, procs, record, lastIncr, nIncr, nRate,
                   log>>
    /\ UNCHANGED cvars

\* updatePartials, line 90, when the loop ends:
\* atomic.StoreInt32(&r.current, current)
StoreCurrent(t) ==
    /\ th[t].pc = "loop"
    /\ ~LoopCondition(th[t])
    /\ current' = th[t].current
    /\ th' = [th EXCEPT ![t].pc = "storeResetTime"]
    /\ UNCHANGED <<counter, partials, resetTime, resetting, mutex, ev>>
    /\ UNCHANGED RateFrame
    /\ UNCHANGED cvars

\* updatePartials, line 92: atomic.StoreUint64(&r.resetTime, now)
StoreResetTime(t) ==
    /\ th[t].pc = "storeResetTime"
    /\ resetTime' = th[t].now
    /\ th' = [th EXCEPT ![t].pc = "deferLock"]
    /\ UNCHANGED <<counter, partials, current, resetting, mutex, ev>>
    /\ UNCHANGED RateFrame
    /\ UNCHANGED cvars

\* the deferred function, line 56: r.Lock()
DeferLock(t) ==
    /\ th[t].pc = "deferLock"
    /\ mutex = 0
    /\ mutex' = t
    /\ th' = [th EXCEPT ![t].pc = "deferClear"]
    /\ UNCHANGED <<counter, partials, resetTime, current, resetting, ev>>
    /\ UNCHANGED RateFrame
    /\ UNCHANGED cvars

\* the deferred function, lines 57-58: r.resetting = false; r.Unlock()
DeferClear(t) ==
    /\ th[t].pc = "deferClear"
    /\ mutex = t
    /\ resetting' = FALSE
    /\ mutex' = 0
    /\ th' = [th EXCEPT ![t] = UpdateReturns(th[t], "rotated")]
    /\ UNCHANGED <<counter, partials, resetTime, current, ev>>
    /\ UNCHANGED RateFrame
    /\ UNCHANGED cvars

\* a goroutine whose call has returned.  The specifications that keep the
\* history of calls keep the call's operation, its result, the path it took
\* through updatePartials and its history until the goroutine's next call.
Returned(f) ==
    IF "calls" \in record
    THEN [IdleFrame EXCEPT !.op = f.op, !.val = f.val, !.ret = f.ret,
                           !.path = f.path, !.start = f.start, !.end = now, !.afterEv = f.afterEv,
                           !.inclEv = f.inclEv, !.idleSince = f.idleSince,
                           !.pre = f.pre]
    ELSE IdleFrame

\* Incr, line 112: current := atomic.LoadInt32(&r.current)
IncrLoadCurrent(t) ==
    /\ th[t].pc = "incrLoadCurrent"
    /\ th' = [th EXCEPT ![t].current = current, ![t].pc = "incrPartial"]
    /\ UNCHANGED <<counter, partials, resetTime, current, resetting, mutex, ev>>
    /\ UNCHANGED RateFrame
    /\ UNCHANGED cvars

\* Incr, line 113: r.partials[current].Incr(val), and the return
IncrPartial(t) ==
    /\ th[t].pc = "incrPartial"
    /\ partials' = [partials EXCEPT ![th[t].current + 1] = CounterIncr(@, th[t].val)]
    /\ ev' = IF th[t].tracked
             THEN [ev EXCEPT !.bucket = th[t].current, !.done = TRUE]
             ELSE ev
    /\ th' = [th EXCEPT ![t] = Returned(th[t])]
    /\ UNCHANGED <<counter, resetTime, current, resetting, mutex>>
    /\ UNCHANGED RateFrame
    /\ UNCHANGED cvars

\* Rate, line 119: return r.counter.Value()
RateValue(t) ==
    /\ th[t].pc = "rateValue"
    /\ th' = [th EXCEPT ![t] =
                 Returned([th[t] EXCEPT !.ret = CounterValue(counter),
                                        !.inclEv = ev.inTotal])]
    /\ UNCHANGED <<counter, partials, resetTime, current, resetting, mutex, ev>>
    /\ UNCHANGED RateFrame
    /\ UNCHANGED cvars

\* step milliseconds pass, up to the time max
Tick(step, max) ==
    /\ ~panicked
    /\ now + step <= max
    /\ now' = now + step
    /\ UNCHANGED <<counter, partials, resetTime, current, resetting, interval,
                   mutex, panicked, procs, th, record, ev, lastIncr, nIncr,
                   nRate, log, advances>>
    /\ UNCHANGED cvars

\* fewer than max calls have been made
Budget(max) == nIncr + nRate < max

\* a step of a call in progress
Step(t) ==
    \/ LoadResetTime(t)
    \/ ReadClock(t)
    \/ Lock(t)
    \/ Gate(t)
    \/ LoadCurrent(t)
    \/ LoadPartial(t)
    \/ Subtract(t)
    \/ ResetPartial(t)
    \/ StoreCurrent(t)
    \/ StoreResetTime(t)
    \/ DeferLock(t)
    \/ DeferClear(t)
    \/ IncrLoadCurrent(t)
    \/ IncrPartial(t)
    \/ RateValue(t)

\* the resolution is chosen before the first call
Configure(n) ==
    /\ nIncr = 0
    /\ nRate = 0
    /\ WithResolution(n)

(* ----------- concurrent use: goroutines 1 and 2, any interleaving ------- *)

Init == InitRate({1, 2}, {"ev"}, {2})

Next ==
    \/ \E n \in -1 .. MaxResolution : Configure(n)
    \/ \E t \in procs, d \in Deltas, track \in BOOLEAN :
          Budget(MaxCalls) /\ CallIncr(t, d, track)
    \/ \E t \in procs : Budget(MaxCalls) /\ CallRate(t)
    \/ \E t \in procs : Step(t)
    \/ Tick(1, MaxTime)

Spec == Init /\ [][Next]_vars

(* ----------- concurrent use, the advances of the ring counted ----------- *)

InitRing == InitRate({1, 2}, {"advances"}, {2})

NextRing ==
    \/ \E n \in -1 .. MaxResolution : Configure(n)
    \/ \E t \in procs, d \in Deltas : Budget(MaxRingCalls) /\ CallIncr(t, d, FALSE)
    \/ \E t \in procs : Budget(MaxRingCalls) /\ CallRate(t)
    \/ \E t \in procs : Step(t)
    \/ Tick(1, MaxTime)

SpecRing == InitRing /\ [][NextRing]_vars

(* ----------- concurrent use where every goroutine keeps taking steps ---- *)

NextLive ==
    \/ \E n \in -1 .. MaxResolution : Configure(n)
    \/ \E t \in procs, d \in Deltas : Budget(MaxLiveCalls) /\ CallIncr(t, d, FALSE)
    \/ \E t \in procs : Budget(MaxLiveCalls) /\ CallRate(t)
    \/ \E t \in procs : Step(t)
    \/ Tick(1, MaxTime)

\* a goroutine inside a call is scheduled again and again (the Go scheduler
\* is preemptive), and a goroutine blocked in r.Lock() gets the mutex once it
\* stays free
SpecLive ==
    /\ Init
    /\ [][NextLive]_vars
    /\ WF_vars(Step(1))
    /\ WF_vars(Step(2))

(* ------------- single-threaded use: one goroutine, calls at --------------*)
(* ------------- a time (the clock does not move during a call) ------------*)

\* time passes between calls
TickIdle(step, max) ==
    /\ AllIdle
    /\ Tick(step, max)

InitSeq == InitRate({1}, {"ev", "calls"}, {2, 4, 6})

NextSeq ==
    \/ \E n \in -1 .. MaxResolution : Configure(n)
    \/ \E t \in procs, d \in Deltas, track \in BOOLEAN :
          Budget(MaxSeqCalls) /\ CallIncr(t, d, track)
    \/ \E t \in procs : Budget(MaxSeqCalls) /\ CallRate(t)
    \/ \E t \in procs : Step(t)
    \/ TickIdle(1, MaxSeqTime)

SpecSeq == InitSeq /\ [][NextSeq]_vars

(* ------------- single-threaded use with reconfiguration between calls ---- *)

InitConfig == InitRate({1}, {}, {2})

NextConfig ==
    \/ \E n \in -1 .. MaxResolution : WithResolution(n)
    \/ \E t \in procs, d \in Deltas : Budget(MaxSeqCalls) /\ CallIncr(t, d, FALSE)
    \/ \E t \in procs : Budget(MaxSeqCalls) /\ CallRate(t)
    \/ \E t \in procs : Step(t)
    \/ TickIdle(1, MaxTime)

SpecConfig == InitConfig /\ [][NextConfig]_vars

(* ------------- the scenario of section 8: window 1000 ms, resolution 10, -- *)
(* ------------- Incr(1) at 0 and at 500 ms, Rate() at any multiple of ------ *)
(* ------------- 100 ms up to 1600 ms --------------------------------------- *)

InitScenario == InitRate({1}, {"calls", "log"}, {1000})

NextScenario ==
    \/ Configure(10)
    \/ \E t \in procs :
          Budget(MaxScenarioCalls) /\ now \in {0, 500} /\ CallIncr(t, 1, FALSE)
    \/ \E t \in procs : Budget(MaxScenarioCalls) /\ CallRate(t)
    \/ \E t \in procs : Step(t)
    \/ TickIdle(100, 1600)

SpecScenario == InitScenario /\ [][NextScenario]_vars

(* ---------------------- the stand-alone Counter ------------------------ *)

CounterCallers == {1, 2, 3}

\* deltas of the calls on the stand-alone Counter
CounterDeltas == {1, 2, 3, 9, -1, -65536, 2147483647}

InitCounter ==
    /\ c = NewCounter
    /\ cpc = [t \in CounterCallers |-> "idle"]
    /\ carg = [t \in CounterCallers |-> I64(0)]
    /\ cread = CounterValue(NewCounter)
    /\ csum = <<0, 0>>
    /\ ccalls = 0
    /\ RateCounterUnused

\* a caller enters c.Incr(d)
CallCounterIncr(t, d) ==
    /\ cpc[t] = "idle"
    /\ ccalls < MaxCounterCalls
    /\ cpc' = [cpc EXCEPT ![t] = "incr"]
    /\ carg' = [carg EXCEPT ![t] = I64(d)]
    /\ csum' = <<csum[1] + I64(d)[1], csum[2] + I64(d)[2]>>
    /\ ccalls' = ccalls + 1
    /\ UNCHANGED <<c, cread>>
    /\ UNCHANGED rvars

\* the atomic add of c.Incr, and its return
DoCounterIncr(t) ==
    /\ cpc[t] = "incr"
    /\ c' = CounterIncr(c, carg[t])
    /\ cpc' = [cpc EXCEPT ![t] = "idle"]
    /\ carg' = [carg EXCEPT ![t] = I64(0)]
    /\ UNCHANGED <<cread, csum, ccalls>>
    /\ UNCHANGED rvars

\* c.Value()
DoCounterValue ==
    /\ cread' = CounterValue(c)
    /\ UNCHANGED <<c, cpc, carg, csum, ccalls>>
    /\ UNCHANGED rvars

NextCounter ==
    \/ \E t \in CounterCallers, d \in CounterDeltas : CallCounterIncr(t, d)
    \/ \E t \in CounterCallers : DoCounterIncr(t)
    \/ DoCounterValue

SpecCounter == InitCounter /\ [][NextCounter]_vars

(* ------------------------------- C1 ------------------------------------ *)

\* the sum of all deltas of the calls made, modulo 2^32, as an int64
CounterExpected == <<(csum[1] + (csum[2] \div Half)) % Half, csum[2] % Half>>

AllCounterCallsReturned == \A t \in CounterCallers : cpc[t] = "idle"

\* C1: once every Incr call on a fresh Counter has returned, Value() is the
\* sum of all their deltas modulo 2^32 (in 0 .. 2^32-1), in every interleaving
\* of the callers.
C1_SumOfIncrements ==
    AllCounterCallsReturned => CounterValue(c) = CounterExpected

\* at least three calls have returned and their deltas add up to 2^32 or
\* more, so that the Counter has wrapped
C1_Witness ==
    /\ AllCounterCallsReturned
    /\ ccalls >= 3
    /\ csum[1] + (csum[2] \div Half) >= Half
    /\ cread = CounterExpected
    /\ cread # <<0, 0>>

(* ------------------------------- C2 ------------------------------------ *)

\* past the gate of updatePartials: from the winning test of r.resetting to
\* the deferred clearing of the flag
PastGate(t) ==
    th[t].pc \in {"loadCurrent", "loop", "subtract", "reset", "storeResetTime",
                  "deferLock", "deferClear"}

\* C2: at most one goroutine at a time is past the resetting gate of
\* updatePartials (in the rotation loop or at the stores to current and
\* resetTime).
C2_OneRotator ==
    \A t1 \in procs, t2 \in procs : (PastGate(t1) /\ PastGate(t2)) => t1 = t2

\* one goroutine is inside the rotation loop while another, which also found a
\* partial interval elapsed, has been turned away at the gate
C2_Witness ==
    \E t1 \in procs, t2 \in procs :
        /\ t1 # t2
        /\ th[t1].pc = "reset"
        /\ th[t2].path = "skipped"

(* ------------------------------- C3 ------------------------------------ *)

\* C3: the caller that finds r.resetting set leaves the rotation step at once
\* (it goes on with its own call while the flag is still set) and that step
\* changes neither current, resetTime, the flag, a bucket nor the total; an
\* Incr that was turned away then adds its delta to the bucket at the index it
\* reads.
C3_SkipChangesNothing ==
    [][\A t \in procs :
          /\ (th[t].pc = "gate" /\ resetting /\ th'[t] # th[t])
                => /\ th'[t].pc = AfterUpdate(th[t])
                   /\ resetting'
                   /\ UNCHANGED <<current, resetTime, partials, counter>>
          /\ (th[t].pc = "incrPartial" /\ th[t].path = "skipped" /\ th'[t] # th[t])
                => /\ partials' = [partials EXCEPT ![th[t].current + 1] =
                                      AddUint32(@, ToUint32(th[t].val))]
                   /\ UNCHANGED <<current, resetTime, resetting, counter>>
      ]_vars

\* an Incr has been turned away at the gate and is about to add to its bucket
\* while the rotation it did not wait for is still in progress
C3_Witness ==
    \E t \in procs :
        /\ th[t].pc = "incrPartial"
        /\ th[t].path = "skipped"
        /\ resetting
        /\ \E t2 \in procs : PastGate(t2)

(* ------------------------------- C4 ------------------------------------ *)

RECURSIVE SumCounters(_)
\* the sum of a sequence of Counters, modulo 2^32
SumCounters(s) ==
    IF s = <<>> THEN NewCounter
    ELSE AddUint32(s[1], SumCounters(Tail(s)))

\* no Incr or Rate call is in progress
Quiescent == AllIdle

\* C4: whenever no Incr or Rate call is in progress, the total equals the sum
\* of all buckets modulo 2^32.
C4_TotalIsSumWhenQuiescent ==
    Quiescent => CounterValue(counter) = CounterValue(SumCounters(partials))

(* ------------------------------- C5 ------------------------------------ *)

\* C5: a Rate() call that starts after the followed Incr has returned and
\* returns less than W - W/R milliseconds after that Incr started returns a
\* value that includes the event.
C5_EventKeptForWindowLessOne ==
    [][\A t \in procs :
          (/\ th[t].pc = "rateValue"
           /\ th'[t].pc = "idle"
           /\ th[t].afterEv
           /\ now < ev.t + (interval - PartialInterval))
          => ev.inTotal = 1
      ]_vars

(* ------------------------------- C6 ------------------------------------ *)

\* goroutine t is between calls and its last call was a Rate()
RateReturned(t) == th[t].pc = "idle" /\ th[t].op = "Rate"

\* C6: a Rate() call that returns more than W milliseconds after the followed
\* Incr started returns a value that no longer includes the event, whatever
\* calls were made in between.
C6_EventGoneAfterWindow ==
    \A t \in procs :
        (/\ RateReturned(t)
         /\ th[t].afterEv
         /\ th[t].end > ev.t + interval)
        => th[t].inclEv = 0

(* ------------------------------- C7 ------------------------------------ *)

\* C7: a Rate() call made more than W milliseconds after the latest Incr call
\* returns 0, whatever calls came before the idle period and however many
\* Rate calls were made during it.
C7_ZeroAfterIdleWindow ==
    \A t \in procs :
        (/\ RateReturned(t)
         /\ th[t].idleSince # -1
         /\ th[t].start - th[t].idleSince > interval)
        => th[t].ret = I64(0)

(* ------------------------------- C8 ------------------------------------ *)

\* C8: window 1000 ms, resolution 10, Incr(1) at 0 and Incr(1) at 500 and no
\* other call: Rate() at 600 returns 2 and Rate() at 1600 returns 0.
C8_Scenario ==
    \A t \in procs :
        (/\ RateReturned(t)
         /\ interval = 1000
         /\ Resolution = 10)
        => /\ log = <<<<"Incr", 1, 0>>, <<"Incr", 1, 500>>, <<"Rate", 0, 600>>>>
                => th[t].ret = I64(2)
           /\ log \in {<<<<"Incr", 1, 0>>, <<"Incr", 1, 500>>, <<"Rate", 0, 1600>>>>,
                       <<<<"Incr", 1, 0>>, <<"Incr", 1, 500>>, <<"Rate", 0, 600>>,
                         <<"Rate", 0, 1600>>>>}
                => th[t].ret = I64(0)

\* the whole scenario has run: the Rate() at 1600 has returned 0 after the
\* Rate() at 600 returned 2
C8_Witness ==
    /\ log = <<<<"Incr", 1, 0>>, <<"Incr", 1, 500>>, <<"Rate", 0, 600>>,
               <<"Rate", 0, 1600>>>>
    /\ RateReturned(1)
    /\ th[1].pre.op = "Rate"
    /\ th[1].pre.ret = I64(2)
    /\ th[1].ret = I64(0)
    /\ th[1].path = "rotated"

(* ------------------------------- C9 ------------------------------------ *)

\* C9: in single-threaded use, a Rate() that directly follows a Rate() and is
\* made no more than one sub-interval after the time of the last rotation
\* returns what the first returned and leaves total, buckets, current and
\* resetTime as it found them.
C9_RateIdempotent ==
    \A t \in procs :
        (/\ RateReturned(t)
         /\ th[t].pre.op = "Rate"
         /\ th[t].start - th[t].pre.resetTime <= PartialInterval)
        => /\ th[t].ret = th[t].pre.ret
           /\ counter = th[t].pre.counter
           /\ partials = th[t].pre.partials
           /\ current = th[t].pre.current
           /\ resetTime = th[t].pre.resetTime

\* the second of two Rate() calls has returned a non-zero value exactly one
\* sub-interval after a rotation
C9_Witness ==
    \E t \in procs :
        /\ RateReturned(t)
        /\ th[t].pre.op = "Rate"
        /\ th[t].pre.resetTime > 0
        /\ th[t].start - th[t].pre.resetTime = PartialInterval
        /\ th[t].ret # I64(0)

(* ------------------------------- C10 ----------------------------------- *)

\* C10: a WithResolution(n) with n < 1 ends in the panic and leaves the ring,
\* current, the total and resetTime exactly as they were.
C10_BadResolutionPanicsFirst ==
    [][(panicked' /\ ~panicked)
          => UNCHANGED <<partials, current, counter, resetTime>>]_vars

\* a counter that has been configured and used, with a non-zero total and a
\* current index other than 0, has panicked in WithResolution
C10_Witness ==
    /\ panicked
    /\ Len(partials) # DefaultResolution
    /\ counter # NewCounter
    /\ current # 0

(* ------------------------------- C11 ----------------------------------- *)

\* the goroutine holding the mutex is at a step that needs nothing from any
\* other goroutine
MutexHolderRuns == mutex # 0 => th[mutex].pc \in {"gate", "deferClear"}

\* while a call is in progress some goroutine can take a step
NoDeadlock ==
    (\E t \in procs : th[t].pc # "idle") => (\E t \in procs : ENABLED Step(t))

\* no rotation pass has done more iterations than the resolution
LoopCapped == \A t \in procs : th[t].ii <= Resolution

ElapsedAtStart(f) == f.start - f.pre.resetTime

\* min(R, ceil(elapsed / sub) - 1)
ExpectedSteps(f) ==
    LET k == ((ElapsedAtStart(f) + PartialInterval - 1) \div PartialInterval) - 1
    IN  IF k < Resolution THEN k ELSE Resolution

\* the Go indices current+1 .. current+k (mod R) counted from the current
\* index the call found
Evicted(f, k) == {(f.pre.current + j) % Resolution : j \in 1 .. k}

RECURSIVE SumEvicted(_, _)
\* the sum, modulo 2^32, of the values the call found in the buckets
\* current+1 .. current+k
SumEvicted(f, k) ==
    IF k = 0 THEN NewCounter
    ELSE AddUint32(f.pre.partials[((f.pre.current + k) % Resolution) + 1],
                   SumEvicted(f, k - 1))

\* the total the rotation pass of frame f started from: an Incr has added its
\* delta before it runs the pass
TotalBeforePass(f) ==
    IF f.op = "Incr" THEN CounterIncr(f.pre.counter, f.val) ELSE f.pre.counter

\* the rotation pass of goroutine t has left its loop
LoopDone(t) == th[t].pc \in {"storeResetTime", "deferLock", "deferClear"}

\* updatePartials has just returned to goroutine t after a rotation pass
PassDone(t) ==
    th[t].pc \in {"rateValue", "incrLoadCurrent"} /\ th[t].path = "rotated"

\* C12: a rotation pass run alone with elapsed > sub does exactly
\* k = min(R, ceil(elapsed/sub) - 1) iterations; after it current has advanced
\* by k (mod R), the k buckets after the old current are zero, every other
\* bucket is as before, the total is smaller by the sum of what those k
\* buckets held, and resetTime is the time of the call.
C12_RotationPass ==
    \A t \in procs :
        /\ LoopDone(t) => th[t].ii = ExpectedSteps(th[t])
        /\ PassDone(t) =>
              LET k == ExpectedSteps(th[t])
              IN  /\ ElapsedAtStart(th[t]) > PartialInterval
                  /\ current = (th[t].pre.current + k) % Resolution
                  /\ \A i \in 0 .. Resolution - 1 :
                        partials[i + 1] =
                            IF i \in Evicted(th[t], k) THEN NewCounter
                            ELSE th[t].pre.partials[i + 1]
                  /\ AddUint32(counter, SumEvicted(th[t], k)) = TotalBeforePass(th[t])
                  /\ resetTime = th[t].start

\* a pass has returned that was cut short by the cap (more than R + 1
\* sub-intervals had elapsed) and that evicted a non-zero bucket
C12_Witness ==
    \E t \in procs :
        /\ PassDone(t)
        /\ ElapsedAtStart(th[t]) > (Resolution + 1) * PartialInterval
        /\ Resolution > 1
        /\ SumEvicted(th[t], ExpectedSteps(th[t])) # NewCounter
        /\ counter # TotalBeforePass(th[t])

(* ------------------------------- C13 ----------------------------------- *)

\* goroutine t is between calls and its last call was an Incr
IncrReturned(t) == th[t].pc = "idle" /\ th[t].op = "Incr"

\* C13: a call made when now - resetTime <= W/R (the boundary included) never
\* takes the mutex nor sets the flag, and its rotation step changes nothing:
\* Rate() returns the total it found and leaves every field as it was, and
\* Incr(d) changes only the total and the bucket at current, each by d.
C13_NoRotationWithinSubInterval ==
    \A t \in procs :
        (th[t].op # "none" /\ ElapsedAtStart(th[t]) <= PartialInterval) =>
            /\ mutex = 0 /\ ~resetting
            /\ th[t].pc \notin {"lock", "gate"} /\ ~PastGate(t)
            /\ current = th[t].pre.current
            /\ resetTime = th[t].pre.resetTime
            /\ RateReturned(t) =>
                  /\ th[t].path = "fresh"
                  /\ th[t].ret = CounterValue(th[t].pre.counter)
                  /\ counter = th[t].pre.counter
                  /\ partials = th[t].pre.partials
            /\ IncrReturned(t) =>
                  /\ th[t].path = "fresh"
                  /\ counter = AddUint32(th[t].pre.counter, ToUint32(th[t].val))
                  /\ partials = [th[t].pre.partials EXCEPT ![current + 1] =
                                    AddUint32(@, ToUint32(th[t].val))]

\* an Incr made exactly one sub-interval after a rotation has returned, on a
\* counter whose total was not zero and whose current index is not 0
C13_Witness ==
    \E t \in procs :
        /\ IncrReturned(t)
        /\ th[t].pre.resetTime > 0
        /\ ElapsedAtStart(th[t]) = PartialInterval
        /\ th[t].pre.counter # NewCounter
        /\ current # 0

(* ------------------------------- C14 ----------------------------------- *)

\* the flag is set exactly while some goroutine is past the gate
FlagHeldByRotator == resetting <=> \E t \in procs : PastGate(t)

\* a step that sets the flag is the step of a goroutine that holds the mutex
\* at the test of line 52 and goes on into the rotation
SetOnlyByGateWinner ==
    (~resetting /\ resetting') =>
        \E t \in procs : /\ th[t].pc = "gate" /\ mutex = t
                         /\ th'[t].pc = "loadCurrent"

\* a step that clears the flag is the deferred function of the goroutine past
\* the gate, which has stored its current and its now by then
ClearedOnlyByOwner ==
    (resetting /\ ~resetting') =>
        \E t \in procs : /\ th[t].pc = "deferClear" /\ mutex = t
                         /\ th'[t].pc \in {"rateValue", "incrLoadCurrent"}
                         /\ current = th[t].current
                         /\ resetTime = th[t].now

\* C14: the resetting flag starts false, is set only by the caller that wins
\* the gate, is cleared only by that caller after it stored current and
\* resetTime, is false whenever no call is in progress, and every state where
\* it is set is followed by one where it is clear.
C14_ResettingFlag ==
    /\ ~resetting
    /\ [](FlagHeldByRotator /\ (AllIdle => ~resetting))
    /\ [][SetOnlyByGateWinner /\ ClearedOnlyByOwner]_vars
    /\ resetting ~> ~resetting

\* the flag is set by a rotating goroutine while the other one waits for the
\* mutex at line 51
C14_Witness ==
    /\ resetting
    /\ \E t1 \in procs, t2 \in procs :
          /\ th[t1].pc = "storeResetTime"
          /\ th[t2].pc = "lock"

(* ------------------------------- C15 ----------------------------------- *)

\* goroutine t won the gate and has not yet cleared the flag
HoldsGate(t) == PastGate(t) /\ th[t].path = "rotating"

\* the step is taken by a goroutine that holds the gate
StepOfGateHolder == \E t \in procs : HoldsGate(t) /\ th'[t] # th[t]

\* the step is line 113 of an Incr: its delta goes to the bucket at the
\* current it loaded, and no other bucket changes
StepOfIncrPartial ==
    \E t \in procs :
        /\ th[t].pc = "incrPartial" /\ th'[t].pc = "idle"
        /\ partials' = [partials EXCEPT ![th[t].current + 1] =
                           AddUint32(@, ToUint32(th[t].val))]

\* C15 as stated: once calls are being made, every step that changes the
\* current index or a bucket of the ring is a step of the goroutine that
\* holds the gate.
C15_RingWrittenOnlyInGate ==
    [][(nIncr + nRate > 0 /\ (current' # current \/ partials' # partials))
          => StepOfGateHolder]_vars

\* C15 amended: once calls are being made, every step that changes the
\* current index is a step of the goroutine that holds the gate, and every
\* step that changes a bucket is either such a step or the line 113 of an
\* Incr adding its delta to the bucket at the current index it loaded.
C15_RingWrittenInGateOrByIncr ==
    [][nIncr + nRate > 0 =>
          /\ current' # current => StepOfGateHolder
          /\ partials' # partials => (StepOfGateHolder \/ StepOfIncrPartial)]_vars

\* an Incr is about to add to its bucket while the other goroutine, past the
\* gate, is about to reset a bucket that holds a count
C15_Witness ==
    \E t1 \in procs, t2 \in procs :
        /\ th[t1].pc = "incrPartial"
        /\ HoldsGate(t2) /\ th[t2].pc = "reset"
        /\ partials[th[t2].next + 1] # NewCounter

(* ------------------------------- C16 ----------------------------------- *)

\* a step from a state with no call in progress to another one at the same
\* instant and without a panic: a WithResolution(n) with n >= 1 that returned
ConfiguredStep ==
    /\ AllIdle /\ AllIdle'
    /\ now' = now
    /\ ~panicked'

\* C16: WithResolution(n) with n >= 1 leaves a ring of n buckets that are all
\* zero and current = 0, leaves the total, resetTime and the window as they
\* were, and so the total equals the sum of the buckets afterwards exactly
\* when the total was 0.
C16_WithResolutionFrame ==
    [][ConfiguredStep =>
          /\ Len(partials') \in 1 .. MaxResolution
          /\ \A i \in 1 .. Len(partials') : partials'[i] = NewCounter
          /\ current' = 0
          /\ UNCHANGED <<counter, resetTime, interval>>
          /\ (counter' = SumCounters(partials')) <=> (counter = NewCounter)]_vars

\* a counter that was configured again after an Incr and before any rotation:
\* its total is not zero and its ring is empty
C16_Witness ==
    /\ AllIdle /\ ~panicked
    /\ Len(partials) # DefaultResolution
    /\ resetTime = 0
    /\ counter # NewCounter
    /\ SumCounters(partials) = NewCounter

(* ------------------------------- C17 ----------------------------------- *)

\* a >= b for two uint32 values
Geq32(a, b) == a[1] > b[1] \/ (a[1] = b[1] /\ a[2] >= b[2])

\* the total is at most the sum of the deltas of the Incr calls made so far
\* (every delta is 1), so it has not wrapped below zero
TotalNotWrapped == Geq32(ToUint32(I64(nIncr)), counter)

\* what the rotating goroutines have subtracted from the total at line 82 for
\* a bucket they have not yet reset at line 85
RECURSIVE PendingDrop(_)
PendingDrop(ts) ==
    IF ts = {} THEN NewCounter
    ELSE LET t == CHOOSE x \in ts : TRUE
         IN  AddUint32(IF th[t].pc = "reset" THEN ToUint32(th[t].dropped)
                       ELSE NewCounter,
                       PendingDrop(ts \ {t}))

\* C17 as stated: with non-negative deltas, in every reachable state the
\* total is at least the sum of the buckets and has not wrapped.
C17_TotalAtLeastBuckets ==
    /\ TotalNotWrapped
    /\ Geq32(counter, SumCounters(partials))

\* C17 amended: with non-negative deltas the total never wraps, so Rate()
\* never returns a wrapped value, and the total is at least the sum of the
\* buckets except between lines 82 and 85 of a rotation, where it is at least
\* that sum less the value just subtracted.
C17_TotalNeverWraps ==
    /\ TotalNotWrapped
    /\ Geq32(AddUint32(counter, PendingDrop(procs)), SumCounters(partials))
    /\ (\A t \in procs : th[t].pc # "reset") =>
          Geq32(counter, SumCounters(partials))

\* a rotation has subtracted a bucket's count and not yet reset the bucket,
\* while the other goroutine is inside a call: the total is below the sum
C17_Witness ==
    \E t1 \in procs, t2 \in procs :
        /\ th[t1].pc = "reset" /\ ToUint32(th[t1].dropped) # NewCounter
        /\ th[t2].pc \notin {"idle", "reset"}
        /\ ~Geq32(counter, SumCounters(partials))

(* ------------------------------- C18 ----------------------------------- *)

\* C18: the clock never goes back in the model, and no step stores into
\* resetTime a value below the one it overwrites.
C18_ResetTimeMonotonic == [][resetTime' >= resetTime]_vars

(* ------------------------------- C19 ----------------------------------- *)

\* C19: by any time T the ring has been advanced at most (T - T0) / (W/R)
\* times, T0 = 0 being the construction time: no elapsed sub-interval is
\* rotated for twice.
C19_AdvancesBoundedByTime ==
    ExactConfig => advances * PartialInterval <= now

(* ------------------------------- C20 ----------------------------------- *)

\* every bucket of the ring is zero: no rotation can take anything from the
\* total any more
RingEmpty == \A i \in 1 .. Len(partials) : partials[i] = NewCounter

\* goroutine t returns from Rate() in this step while no other call is in
\* progress
LoneRateReturns(t) ==
    /\ th[t].pc = "rateValue" /\ th'[t].pc = "idle"
    /\ \A u \in procs \ {t} : th[u].pc = "idle"

\* C20: every delta is subtracted again in the end.  Rotations subtract
\* bucket values only (line 82), so once the ring is empty and Incr is not
\* called the total stays what it is: a Rate() that returns then, with no
\* other call in progress, returns 0.
C20_RateZeroOnceRingEmpty ==
    [][\A t \in procs : (LoneRateReturns(t) /\ RingEmpty)
                            => CounterValue(counter) = I64(0)]_vars

====
